---- MODULE Spec2Model ----
(***************************************************************************)
(* Model of the Flatpak bundling pipeline, bundle_project, of              *)
(* tooling/bundler/src/bundle/linux/flatpak.rs.                            *)
(*                                                                         *)
(* A path is the sequence of its components; an absolute path starts with  *)
(* the empty component, so that joining the components with "/" gives the  *)
(* usual rendering (<<"", "w", "target">> is /w/target).  The filesystem   *)
(* is the set of directories and the set of files that exist.  Every       *)
(* invocation of bundle_project is a run slot r with its own program       *)
(* counter and locals; the slots share the filesystem.                     *)
(***************************************************************************)
EXTENDS Integers, Sequences, FiniteSets, TLC

\* ------------------------------------------------------------------ bounds

\* Number of invocations of bundle_project, one after the other (Spec).
MaxRuns == 2

\* Run slots; SpecConc runs both at once.
Runs == {1, 2}

\* ------------------------------------------------------------------ paths

IsPrefix(base, p) ==
  /\ Len(base) <= Len(p)
  /\ SubSeq(p, 1, Len(base)) = base

\* Mutant: the error of strip_prefix is swallowed and the path kept whole.
strip_prefix_lossy(p, base) ==
  [tag |-> "Ok", val |-> IF IsPrefix(base, p) THEN SubSeq(p, Len(base) + 1, Len(p)) ELSE p]

\* Path::strip_prefix: Ok(rest) when base is a component-wise prefix of p
\* (base = p gives the empty path), Err(StripPrefixError) otherwise.
strip_prefix(p, base) ==
  IF IsPrefix(base, p)
    THEN [tag |-> "Ok", val |-> SubSeq(p, Len(base) + 1, Len(p))]
    ELSE [tag |-> "Err", val |-> <<>>]

\* Path::join with a relative path.
join(p, rel) == p \o rel

RECURSIVE JoinStr(_)
JoinStr(p) ==
  IF Len(p) = 0 THEN ""
  ELSE IF Len(p) = 1 THEN p[1]
  ELSE p[1] \o "/" \o JoinStr(Tail(p))

\* Path::to_string_lossy / Path::display.
to_string_lossy(p) == JoinStr(p)

\* All prefixes of p of at least `from` components (the directories
\* create_dir_all makes sure exist).
Ancestors(p, from) == {SubSeq(p, 1, n) : n \in from..Len(p)}

\* ------------------------------------------------------------------ settings

AppIds == {"app.tauri.example", "app.tauri.other"}
Archs == {"x86", "x86_64", "aarch64"}
ProjectOut == <<"", "w", "target", "release">>
Workdirs == {<<"", "w">>, <<"", "w", "target", "release">>, <<"", "v">>}

SettingsSet ==
  [bundle_identifier : AppIds,
   product_name : {"Example"},
   main_binary_name : {"example"},
   version_string : {"1.0.0"},
   binary_arch : Archs,
   binaries : {<<"example">>},
   project_out_directory : {ProjectOut},
   workdir : Workdirs,
   skip_list : {<< <<"node_modules">> >>},
   rel_app_dir : {<<>>},
   rel_tauri_dir : {<<"src-tauri">>},
   use_node_cli : {FALSE},
   tauri_cli_version : {"1.0.5"}]

\* Settings of the runs that execute concurrently: the same project, under
\* its workdir.
ConcSettingsSet ==
  {s \in SettingsSet : s.workdir = <<"", "w">> /\ s.binary_arch = "x86_64"}

NoSettings == [bundle_identifier |-> ""]

\* ------------------------------------------------------------------ layout

output_dir(s) == join(s.project_out_directory, <<"bundle", "flatpak">>)
local_dir(s) == join(output_dir(s), <<"local">>)
local_build_dir(s) == join(output_dir(s), <<"local_build">>)
manifest_path(s) == join(local_dir(s), <<s.bundle_identifier \o ".json">>)
flatpak_repository_dir(s) == join(output_dir(s), <<"repo">>)
bundle_name(s) == s.bundle_identifier \o ".flatpak"
\* Mutant: the bundle path is taken below local_dir.
flatpak_bundle_path_in_local(s) == join(local_dir(s), <<bundle_name(s)>>)
flatpak_bundle_path(s) == join(output_dir(s), <<bundle_name(s)>>)
\* Mutant: the caches are kept next to the bundle directory.
cache_dir_in_project(s) == join(s.project_out_directory, <<".cache">>)
cache_dir(s) == join(output_dir(s), <<".cache">>)
cargo_cache_dir(s) == join(cache_dir(s), <<"cargo">>)
yarn_cache_dir(s) == join(cache_dir(s), <<"yarn">>)
target_cache_dir(s) == join(cache_dir(s), <<"target">>)
state_dir(s) == join(output_dir(s), <<".flatpak-builder">>)
shared_modules_dir(s) == join(local_dir(s), <<"shared-modules">>)
shared_modules_head(s) == join(shared_modules_dir(s), <<".git">>)
desktop_file_path(s) ==
  join(local_dir(s), <<"usr", "share", "applications", s.main_binary_name \o ".desktop">>)
icon_file_path(s) ==
  join(local_dir(s), <<"usr", "share", "icons", s.main_binary_name \o ".png">>)

\* ------------------------------------------------------------------ filesystem

\* A filesystem value: the directories and the files that exist.
exists(f, p) == p \in f.dirs \/ p \in f.files

Under(p, q) == IsPrefix(p, q)

\* An io::Result: the filesystem after the call, and the io::ErrorKind of an error.
FsOk(f) == [tag |-> "Ok", fs |-> f, kind |-> ""]
FsErr(f, kind) == [tag |-> "Err", fs |-> f, kind |-> kind]

\* std::fs::remove_dir_all: removes the directory and everything below it;
\* an error when the path is no directory (missing, or a file).
remove_dir_all(f, p) ==
  IF p \in f.dirs
    THEN FsOk([dirs |-> {d \in f.dirs : ~Under(p, d)},
               files |-> {x \in f.files : ~Under(p, x)}])
    ELSE FsErr(f, IF p \in f.files THEN "NotADirectory" ELSE "NotFound")

\* std::fs::create_dir_all: creates the directory and every missing parent;
\* no error when it already exists, an error when a component is a file.
create_dir_all(f, p) ==
  IF Ancestors(p, 1) \cap f.files # {}
    THEN FsErr(f, "NotADirectory")
    ELSE FsOk([dirs |-> f.dirs \cup Ancestors(p, 1), files |-> f.files])

\* std::fs::write: creates or replaces the file; an error when the parent
\* directory is missing or the path is a directory.
write(f, p) ==
  IF SubSeq(p, 1, Len(p) - 1) \in f.dirs /\ p \notin f.dirs
    THEN FsOk([dirs |-> f.dirs, files |-> f.files \cup {p}])
    ELSE FsErr(f, IF p \in f.dirs THEN "IsADirectory" ELSE "NotFound")

\* debian::generate_desktop_file(settings, data_dir): writes the desktop
\* entry below data_dir, creating its parent directories.
generate_desktop_file(f, s) ==
  LET made == create_dir_all(f, SubSeq(desktop_file_path(s), 1, Len(desktop_file_path(s)) - 1))
  IN IF made.tag = "Ok" THEN write(made.fs, desktop_file_path(s)) ELSE made

\* debian::generate_icon_files(settings, data_dir): writes the icons below
\* data_dir, creating their parent directories.
generate_icon_files(f, s) ==
  LET made == create_dir_all(f, SubSeq(icon_file_path(s), 1, Len(icon_file_path(s)) - 1))
  IN IF made.tag = "Ok" THEN write(made.fs, icon_file_path(s)) ELSE made

\* ------------------------------------------------------------------ manifest

\* Mutant: the two architecture codes swapped.
arch_code_swapped(binary_arch) ==
  CASE binary_arch = "x86" -> "amd64"
    [] binary_arch = "x86_64" -> "i386"
    [] OTHER -> binary_arch

arch_code(binary_arch) ==
  CASE binary_arch = "x86" -> "i386"
    [] binary_arch = "x86_64" -> "amd64"
    [] OTHER -> binary_arch

deb_package_name(s) ==
  s.main_binary_name \o "_" \o s.version_string \o "_" \o arch_code(s.binary_arch)

ManifestMap(s, rel_project_out_directory) ==
  [project_out_directory |-> to_string_lossy(s.project_out_directory),
   app_id |-> s.bundle_identifier,
   app_name |-> s.product_name,
   main_binary |-> s.main_binary_name,
   cargo_cache_dir |-> to_string_lossy(cargo_cache_dir(s)),
   yarn_cache_dir |-> to_string_lossy(yarn_cache_dir(s)),
   target_cache_dir |-> to_string_lossy(target_cache_dir(s)),
   local_dir |-> to_string_lossy(local_dir(s)),
   rel_app_dir |-> to_string_lossy(s.rel_app_dir),
   rel_tauri_dir |-> to_string_lossy(s.rel_tauri_dir),
   rel_project_out_directory |-> to_string_lossy(rel_project_out_directory),
   workdir |-> to_string_lossy(s.workdir),
   deb_package_name |-> deb_package_name(s),
   skip_list |-> [i \in DOMAIN s.skip_list |-> to_string_lossy(s.skip_list[i])],
   binary |-> s.binaries,
   use_node_cli |-> s.use_node_cli,
   tauri_cli_version |-> s.tauri_cli_version]

ManifestFields ==
  {"project_out_directory", "app_id", "app_name", "main_binary", "cargo_cache_dir",
   "yarn_cache_dir", "target_cache_dir", "local_dir", "rel_app_dir", "rel_tauri_dir",
   "rel_project_out_directory", "workdir", "deb_package_name", "skip_list", "binary",
   "use_node_cli", "tauri_cli_version"}

\* The embedded manifest template, as the set of record fields it refers
\* to: one that refers to fields of the record only, one that also refers
\* to a field the record does not have.
Templates == {ManifestFields, ManifestFields \cup {"metainfo"}}

NoData == [app_id |-> ""]
NoManifest == [app_id |-> ""]

\* Handlebars::render in strict mode: an error when the template refers to
\* a field the record does not have, else the fields rendered.
render(tpl, d) ==
  IF tpl \subseteq DOMAIN d
    THEN [tag |-> "Ok", val |-> [f \in tpl |-> d[f]]]
    ELSE [tag |-> "Err", val |-> NoManifest]

\* ------------------------------------------------------------------ errors

NoContext == ""
CloneContext == "failed to generate Cargo sources file for Flatpak manifest"
BuildContext == "failed to build Flatpak"
ExportContext == "failed to export Flatpak bundle"

NoResult == [tag |-> "None", kind |-> "", context |-> NoContext, paths |-> <<>>]
Err(kind, context) == [tag |-> "Err", kind |-> kind, context |-> context, paths |-> <<>>]
Ok(paths) == [tag |-> "Ok", kind |-> "", context |-> NoContext, paths |-> paths]

ExitCodes == {0, 1}

\* CommandExt::output_ok: the command's output when it exited with status
\* 0, an error otherwise.
output_ok(code) == IF code = 0 THEN "Ok" ELSE "Err"

\* ------------------------------------------------------------------ flatpak info

WELL_KNOWN_PATH == "/.flatpak-info"

\* The four keys FlatpakInfo is read from, as <<group, key>>.
KeyName == <<"Application", "name">>
KeyRuntime == <<"Application", "runtime">>
KeyArch == <<"Instance", "arch">>
KeyBranch == <<"Instance", "branch">>
InfoKeys == {KeyName, KeyRuntime, KeyArch, KeyBranch}

KeyValues(k) ==
  CASE k = KeyName -> {"app.tauri.tauri-util-tests", "app.tauri.api-example"}
    [] k = KeyRuntime -> {"runtime/org.gnome.Platform/x86_64/42"}
    [] k = KeyArch -> {"x86_64", "aarch64"}
    [] k = KeyBranch -> {"dev", "stable"}

\* A key file: the values of the keys it holds, of the four.
KeyFiles ==
  UNION {{kf \in [ks -> UNION {KeyValues(k) : k \in InfoKeys}] :
            \A k \in ks : kf[k] \in KeyValues(k)} : ks \in SUBSET InfoKeys}

\* What may be at /.flatpak-info: nothing, a directory, a file that is no
\* key file, or a key file.
InfoFiles ==
  {[kind |-> "absent", keys |-> <<>>], [kind |-> "directory", keys |-> <<>>],
   [kind |-> "garbage", keys |-> <<>>]}
  \cup {[kind |-> "keyfile", keys |-> kf] : kf \in KeyFiles}

\* Path::exists
info_exists(file) == file.kind # "absent"

\* KeyFile::load_from_file: the keys of the file, or a glib error.
load_from_file(file) ==
  IF file.kind = "keyfile"
    THEN [tag |-> "Ok", val |-> file.keys]
    ELSE [tag |-> "Err", val |-> <<>>]

\* KeyFile::string(group, key): the value, or a glib error when the file
\* has no such group or key.
string(keyfile, k) ==
  IF k \in DOMAIN keyfile
    THEN [tag |-> "Ok", val |-> keyfile[k]]
    ELSE [tag |-> "Err", val |-> ""]

NoFlatpakInfo ==
  [application_name |-> "", application_runtime |-> "", instance_arch |-> "", instance_branch |-> ""]

GErr == [tag |-> "Err", val |-> NoFlatpakInfo]

\* Mutant: instance_arch is read from the branch key.
try_load_from_file_arch_from_branch(file) ==
  LET keyfile == load_from_file(file) IN
  IF keyfile.tag = "Err" THEN GErr
  ELSE IF \E k \in InfoKeys : string(keyfile.val, k).tag = "Err" THEN GErr
  ELSE [tag |-> "Ok",
        val |-> [application_name |-> string(keyfile.val, KeyName).val,
                 application_runtime |-> string(keyfile.val, KeyRuntime).val,
                 instance_arch |-> string(keyfile.val, KeyBranch).val,
                 instance_branch |-> string(keyfile.val, KeyBranch).val]]

\* FlatpakInfo::try_load_from_file: `?` after the load and after each of
\* the four reads, in the order name, runtime, arch, branch.
try_load_from_file(file) ==
  LET keyfile == load_from_file(file) IN
  IF keyfile.tag = "Err" THEN GErr
  ELSE IF string(keyfile.val, KeyName).tag = "Err" THEN GErr
  ELSE IF string(keyfile.val, KeyRuntime).tag = "Err" THEN GErr
  ELSE IF string(keyfile.val, KeyArch).tag = "Err" THEN GErr
  ELSE IF string(keyfile.val, KeyBranch).tag = "Err" THEN GErr
  ELSE [tag |-> "Ok",
        val |-> [application_name |-> string(keyfile.val, KeyName).val,
                 application_runtime |-> string(keyfile.val, KeyRuntime).val,
                 instance_arch |-> string(keyfile.val, KeyArch).val,
                 instance_branch |-> string(keyfile.val, KeyBranch).val]]

\* FlatpakInfo::get_identifier_triple
get_identifier_triple(i) ==
  i.application_name \o "/" \o i.instance_arch \o "/" \o i.instance_branch

\* No call of FlatpakInfo::try_load under way.
InfoIdle ==
  [pc |-> "idle", file |-> [kind |-> "absent", keys |-> <<>>],
   result |-> [tag |-> "", val |-> NoFlatpakInfo], triple |-> ""]

\* ------------------------------------------------------------------ shell

\* A string of the shell API is the sequence of its characters.
UpperChars == <<"A", "B", "C", "D", "E", "F", "G", "H", "I", "J", "K", "L", "M", "N", "O", "P", "Q", "R", "S", "T", "U", "V", "W", "X", "Y", "Z">>
LowerChars == <<"a", "b", "c", "d", "e", "f", "g", "h", "i", "j", "k", "l", "m", "n", "o", "p", "q", "r", "s", "t", "u", "v", "w", "x", "y", "z">>

\* char::to_lowercase, on the letters A-Z.
to_lowercase_char(c) ==
  IF \E i \in DOMAIN UpperChars : UpperChars[i] = c
    THEN LowerChars[CHOOSE i \in DOMAIN UpperChars : UpperChars[i] = c]
    ELSE c

to_uppercase_char(c) ==
  IF \E i \in DOMAIN LowerChars : LowerChars[i] = c
    THEN UpperChars[CHOOSE i \in DOMAIN LowerChars : LowerChars[i] = c]
    ELSE c

\* str::to_lowercase
to_lowercase(s) == [i \in DOMAIN s |-> to_lowercase_char(s[i])]

\* The characters as one string.
RECURSIVE Str(_)
Str(s) == IF Len(s) = 0 THEN "" ELSE s[1] \o Str(Tail(s))

\* The names of the tables of from_str and of Program::name.
S_open == <<"o", "p", "e", "n">>
S_start == <<"s", "t", "a", "r", "t">>
S_xdg_open == <<"x", "d", "g", "-", "o", "p", "e", "n">>
S_xdg_desktop_portal == <<"x", "d", "g", "-", "d", "e", "s", "k", "t", "o", "p", "-", "p", "o", "r", "t", "a", "l">>
S_gio == <<"g", "i", "o">>
S_gnome_open == <<"g", "n", "o", "m", "e", "-", "o", "p", "e", "n">>
S_kde_open == <<"k", "d", "e", "-", "o", "p", "e", "n">>
S_wslview == <<"w", "s", "l", "v", "i", "e", "w">>
S_firefox == <<"f", "i", "r", "e", "f", "o", "x">>
S_chrome == <<"c", "h", "r", "o", "m", "e">>
S_google_chrome == <<"g", "o", "o", "g", "l", "e", " ", "c", "h", "r", "o", "m", "e">>
S_chromium == <<"c", "h", "r", "o", "m", "i", "u", "m">>
S_safari == <<"s", "a", "f", "a", "r", "i">>
S_google_dash_chrome == <<"g", "o", "o", "g", "l", "e", "-", "c", "h", "r", "o", "m", "e">>
S_Firefox == <<"F", "i", "r", "e", "f", "o", "x">>
S_Google_Chrome == <<"G", "o", "o", "g", "l", "e", " ", "C", "h", "r", "o", "m", "e">>
S_Chromium == <<"C", "h", "r", "o", "m", "i", "u", "m">>
S_Safari == <<"S", "a", "f", "a", "r", "i">>

\* Every way of writing w in upper and lower case letters.
RECURSIVE CaseVariants(_)
CaseVariants(w) ==
  IF Len(w) = 0 THEN {<<>>}
  ELSE {<<c>> \o rest : c \in {w[1], to_uppercase_char(w[1])}, rest \in CaseVariants(Tail(w))}

\* The strings from_str is called with.
ShellInputs ==
  CaseVariants(S_open) \cup CaseVariants(S_start) \cup CaseVariants(S_gio)
  \cup CaseVariants(S_chrome) \cup CaseVariants(S_safari) \cup CaseVariants(S_xdg_open)
  \cup CaseVariants(S_wslview) \cup CaseVariants(S_firefox)
  \cup {S_gnome_open, S_kde_open, S_chromium, S_Chromium, S_google_chrome, S_Google_Chrome,
        S_google_dash_chrome, S_xdg_desktop_portal, <<>>,
   <<"G", "N", "O", "M", "E", "-", "O", "p", "e", "n">>,
   <<"K", "D", "E", "-", "o", "p", "e", "n">>,
   <<"X", "D", "G", "-", "D", "e", "s", "k", "t", "o", "p", "-", "P", "o", "r", "t", "a", "l">>,
   <<"C", "H", "R", "O", "M", "I", "U", "M">>,
   <<"G", "O", "O", "G", "L", "E", " ", "C", "H", "R", "O", "M", "E">>,
   <<"G", "o", "o", "g", "l", "e", "-", "C", "h", "r", "o", "m", "e">>,
   <<"o", "p", "n">>,
   <<"o", "p", "e", "n", " ">>,
   <<"x", "d", "g", "_", "o", "p", "e", "n">>,
   <<"g", "o", "o", "g", "l", "e", "c", "h", "r", "o", "m", "e">>,
   <<"p", "o", "r", "t", "a", "l">>}

Programs ==
  {"Open", "Start", "XdgOpen", "Gio", "GnomeOpen", "KdeOpen", "WslView", "Firefox", "Chrome",
   "Chromium", "Safari"}

TargetOs == {"macos", "linux", "windows"}

\* OpenWith values, and the results of from_str.
OpenWithProgram(p) == [kind |-> "Program", name |-> p, options |-> "None"]
OpenWithProtocol(p, options) == [kind |-> "Protocol", name |-> p, options |-> options]
NoOpenWith == [kind |-> "", name |-> "", options |-> "None"]
ParseOk(w) == [tag |-> "Ok", with |-> w, err |-> ""]
UnknownProgramName(s) == [tag |-> "Err", with |-> NoOpenWith, err |-> s]
NoParse == [tag |-> "", with |-> NoOpenWith, err |-> ""]

\* The table of from_str, matched against the string l; s is the string
\* from_str was given.
from_str_match(l, s) ==
  CASE l = "open" -> ParseOk(OpenWithProgram("Open"))
    [] l = "start" -> ParseOk(OpenWithProgram("Start"))
    [] l = "xdg-open" -> ParseOk(OpenWithProgram("XdgOpen"))
    [] l = "xdg-desktop-portal" -> ParseOk(OpenWithProtocol("XdgDesktopPortal", "None"))
    [] l = "gio" -> ParseOk(OpenWithProgram("Gio"))
    [] l = "gnome-open" -> ParseOk(OpenWithProgram("GnomeOpen"))
    [] l = "kde-open" -> ParseOk(OpenWithProgram("KdeOpen"))
    [] l = "wslview" -> ParseOk(OpenWithProgram("WslView"))
    [] l = "firefox" -> ParseOk(OpenWithProgram("Firefox"))
    [] l = "chrome" \/ l = "google chrome" -> ParseOk(OpenWithProgram("Chrome"))
    [] l = "chromium" -> ParseOk(OpenWithProgram("Chromium"))
    [] l = "safari" -> ParseOk(OpenWithProgram("Safari"))
    [] OTHER -> UnknownProgramName(Str(s))

\* Mutant: the table is matched against the string as given.
from_str_case_sensitive(s) == from_str_match(Str(s), s)

\* OpenWith::from_str
from_str(s) == from_str_match(Str(to_lowercase(s)), s)

\* Mutant: Chrome has its Linux name on every target.
Program_name_chrome_everywhere(p, target_os) ==
  CASE p = "Open" -> S_open
    [] p = "Start" -> S_start
    [] p = "XdgOpen" -> S_xdg_open
    [] p = "Gio" -> S_gio
    [] p = "GnomeOpen" -> S_gnome_open
    [] p = "KdeOpen" -> S_kde_open
    [] p = "WslView" -> S_wslview
    [] p = "Firefox" -> IF target_os = "macos" THEN S_Firefox ELSE S_firefox
    [] p = "Chrome" -> S_google_dash_chrome
    [] p = "Chromium" -> IF target_os = "macos" THEN S_Chromium ELSE S_chromium
    [] p = "Safari" -> IF target_os = "macos" THEN S_Safari ELSE S_safari

\* Program::name, as compiled for target_os.
Program_name(p, target_os) ==
  CASE p = "Open" -> S_open
    [] p = "Start" -> S_start
    [] p = "XdgOpen" -> S_xdg_open
    [] p = "Gio" -> S_gio
    [] p = "GnomeOpen" -> S_gnome_open
    [] p = "KdeOpen" -> S_kde_open
    [] p = "WslView" -> S_wslview
    [] p = "Firefox" -> IF target_os = "macos" THEN S_Firefox ELSE S_firefox
    [] p = "Chrome" -> IF target_os = "macos" THEN S_Google_Chrome ELSE S_google_dash_chrome
    [] p = "Chromium" -> IF target_os = "macos" THEN S_Chromium ELSE S_chromium
    [] p = "Safari" -> IF target_os = "macos" THEN S_Safari ELSE S_safari

NAMESPACE == "org.freedesktop.portal.Desktop"
OBJECT_PATH == "/org/freedesktop/portal/desktop"

\* The options of XdgDesktopPortal(..): None, or Some(Ask).
PortalOptions == {"None", "Ask"}

NoMessage ==
  [destination |-> "", path |-> "", interface |-> "", member |-> "",
   parent_window |-> "", uri |-> "", options |-> {}]

\* portal_open_uri: the method call it sends. The third argument is the
\* a{sv} dictionary of options, as its set of <<key, value>> entries: the
\* code appends an empty array whatever `options` is.
portal_open_uri(uri, options) ==
  [destination |-> NAMESPACE, path |-> OBJECT_PATH,
   interface |-> "org.freedesktop.portal.OpenURI", member |-> "OpenURI",
   parent_window |-> "", uri |-> uri, options |-> {}]

Uris == {"https://tauri.app", "https://github.com/tauri-apps/tauri"}

\* No call of the shell-open API made yet.
ShellIdle ==
  [pc |-> "idle", input |-> <<>>, parsed |-> NoParse, program |-> "", target_os |-> "",
   name |-> <<>>, options |-> "None", msg |-> NoMessage]

\* ------------------------------------------------------------------ state

VARIABLES
  fs,        \* the filesystem: [dirs, files]
  template,  \* template[r]: the manifest template embedded in the bundler run r executes
  pc,        \* pc[r]: where run r stands in bundle_project
  settings,  \* settings[r]: the Settings run r was called with
  rel,       \* rel[r]: rel_project_out_directory
  data,      \* data[r]: the ManifestMap
  manifest,  \* manifest[r]: the rendered manifest
  result,    \* result[r]: what bundle_project returned
  log,       \* log[r]: what run r has done so far, in order
  child,     \* child[r]: the external process run r has spawned and not yet reaped
  started,   \* invocations so far
  outcomes,  \* the results of the finished invocations, oldest first
  info,      \* the call of FlatpakInfo::try_load: the file /.flatpak-info, the position, the result
  shell      \* the shell-open API: the last call and what it produced

vars == <<fs, template, pc, settings, rel, data, manifest, result, log, child, started, outcomes,
          info, shell>>

\* The components of the pipeline.
WM == "Workspace Manager"
MDB == "Manifest Data Builder"
MR == "Manifest Renderer"
DSF == "Dependency Source Fetcher"
SB == "Sandbox Builder"
BE == "Bundle Exporter"
Assets == "Asset generation"

Event(comp, op, ok) == [comp |-> comp, op |-> op, ok |-> ok]

\* The filesystem before the first run: the project output directory alone.
CleanFs == [dirs |-> Ancestors(ProjectOut, 1), files |-> {}]

InitLocals ==
  /\ template = [r \in Runs |-> {}]
  /\ pc = [r \in Runs |-> "idle"]
  /\ settings = [r \in Runs |-> NoSettings]
  /\ rel = [r \in Runs |-> <<>>]
  /\ data = [r \in Runs |-> NoData]
  /\ manifest = [r \in Runs |-> NoManifest]
  /\ result = [r \in Runs |-> NoResult]
  /\ log = [r \in Runs |-> <<>>]
  /\ child = [r \in Runs |-> "none"]
  /\ started = 0
  /\ outcomes = <<>>

Init == fs = CleanFs /\ InitLocals /\ info = InfoIdle /\ shell = ShellIdle

\* The statement at pc[r] succeeded: on to `next`.
Proceed(r, next, comp, op) ==
  /\ pc' = [pc EXCEPT ![r] = next]
  /\ log' = [log EXCEPT ![r] = Append(@, Event(comp, op, TRUE))]
  /\ UNCHANGED <<result, outcomes>>

\* The statement at pc[r] failed and `?` returns the error to the caller.
ReturnErr(r, kind, context, comp, op) ==
  /\ pc' = [pc EXCEPT ![r] = "returned"]
  /\ result' = [result EXCEPT ![r] = Err(kind, context)]
  /\ log' = [log EXCEPT ![r] = Append(@, Event(comp, op, FALSE))]
  /\ outcomes' = Append(outcomes, [tag |-> "Err", id |-> settings[r].bundle_identifier])

\* A filesystem call at pc[r] with outcome res: `?` on an io::Result.
FsCall(r, res, next, comp, op) ==
  /\ fs' = res.fs
  /\ IF res.tag = "Ok"
       THEN Proceed(r, next, comp, op)
       ELSE ReturnErr(r, res.kind, NoContext, comp, op)

\* What a filesystem call does when the operating system lets it (io) or
\* refuses it (permission denied, disk full, ...).
Io(io, res) == IF io THEN res ELSE FsErr(fs, "PermissionDenied")

Enter(r, s, tpl) ==
  /\ settings' = [settings EXCEPT ![r] = s]
  /\ template' = [template EXCEPT ![r] = tpl]
  /\ pc' = [pc EXCEPT ![r] = "strip_prefix"]
  /\ rel' = [rel EXCEPT ![r] = <<>>]
  /\ data' = [data EXCEPT ![r] = NoData]
  /\ manifest' = [manifest EXCEPT ![r] = NoManifest]
  /\ result' = [result EXCEPT ![r] = NoResult]
  /\ log' = [log EXCEPT ![r] = <<>>]
  /\ started' = started + 1
  /\ UNCHANGED <<fs, child, outcomes, info, shell>>

\* The caller invokes bundle_project; no other invocation is under way.
BeginRun(r) ==
  /\ pc[r] \in {"idle", "returned"}
  /\ \A q \in Runs \ {r} : pc[q] = "idle"
  /\ started < MaxRuns
  /\ \E s \in SettingsSet, tpl \in Templates : Enter(r, s, tpl)

\* Two callers invoke bundle_project for the same project at once.
BeginConcurrentRun(r) ==
  /\ pc[r] = "idle"
  /\ \E s \in ConcSettingsSet, tpl \in Templates : Enter(r, s, tpl)

\* Mutant: the workspace is cleaned before the error is returned.
StripPrefix_after_cleanup(r) ==
  /\ pc[r] = "strip_prefix"
  /\ LET res == strip_prefix(settings[r].project_out_directory, settings[r].workdir)
     IN IF res.tag = "Ok"
          THEN /\ rel' = [rel EXCEPT ![r] = res.val]
               /\ Proceed(r, "exists_local", MDB, "strip_prefix")
               /\ UNCHANGED fs
          ELSE /\ UNCHANGED rel
               /\ fs' = remove_dir_all(fs, local_dir(settings[r])).fs
               /\ ReturnErr(r, "StripPrefixError", NoContext, MDB, "strip_prefix")
  /\ UNCHANGED <<template, settings, data, manifest, child, started, info, shell>>

\* Lines 51-56: rel_project_out_directory.
StripPrefix(r) ==
  /\ pc[r] = "strip_prefix"
  /\ LET res == strip_prefix(settings[r].project_out_directory, settings[r].workdir)
     IN IF res.tag = "Ok"
          THEN /\ rel' = [rel EXCEPT ![r] = res.val]
               /\ Proceed(r, "exists_local", MDB, "strip_prefix")
          ELSE /\ UNCHANGED rel
               /\ ReturnErr(r, "StripPrefixError", NoContext, MDB, "strip_prefix")
  /\ UNCHANGED <<fs, template, settings, data, manifest, child, started, info, shell>>

\* Line 93: if local_dir.exists()
ExistsLocal(r) ==
  /\ pc[r] = "exists_local"
  /\ Proceed(r, IF exists(fs, local_dir(settings[r])) THEN "remove_local" ELSE "exists_local_build",
             WM, "local_dir.exists")
  /\ UNCHANGED <<fs, template, settings, rel, data, manifest, child, started, info, shell>>

\* Mutant: local_dir is kept as it is found.
RemoveLocal_keep(r) ==
  /\ pc[r] = "remove_local"
  /\ Proceed(r, "exists_local_build", WM, "remove local_dir")
  /\ UNCHANGED <<fs, template, settings, rel, data, manifest, child, started, info, shell>>

\* Mutant: only the old manifest is removed from local_dir.
RemoveLocal_manifest_only(r) ==
  /\ pc[r] = "remove_local"
  /\ fs' = [fs EXCEPT !.files = @ \ {manifest_path(s) : s \in SettingsSet}]
  /\ Proceed(r, "exists_local_build", WM, "remove local_dir")
  /\ UNCHANGED <<template, settings, rel, data, manifest, child, started, info, shell>>

\* Line 94: fs::remove_dir_all(&local_dir)?
RemoveLocal(r) ==
  /\ pc[r] = "remove_local"
  /\ \E io \in BOOLEAN :
       FsCall(r, Io(io, remove_dir_all(fs, local_dir(settings[r]))), "exists_local_build",
              WM, "remove local_dir")
  /\ UNCHANGED <<template, settings, rel, data, manifest, child, started, info, shell>>

\* Mutant: the second test looks at local_dir again.
ExistsLocalBuild_wrong_dir(r) ==
  /\ pc[r] = "exists_local_build"
  /\ Proceed(r, IF exists(fs, local_dir(settings[r])) THEN "remove_local_build" ELSE "create_local",
             WM, "local_build_dir.exists")
  /\ UNCHANGED <<fs, template, settings, rel, data, manifest, child, started, info, shell>>

\* Line 96: if local_build_dir.exists()
ExistsLocalBuild(r) ==
  /\ pc[r] = "exists_local_build"
  /\ Proceed(r, IF exists(fs, local_build_dir(settings[r])) THEN "remove_local_build" ELSE "create_local",
             WM, "local_build_dir.exists")
  /\ UNCHANGED <<fs, template, settings, rel, data, manifest, child, started, info, shell>>

\* Mutant: the whole output directory is removed.
RemoveLocalBuild_output_dir(r) ==
  /\ pc[r] = "remove_local_build"
  /\ \E io \in BOOLEAN :
       FsCall(r, Io(io, remove_dir_all(fs, output_dir(settings[r]))), "create_local",
              WM, "remove local_build_dir")
  /\ UNCHANGED <<template, settings, rel, data, manifest, child, started, info, shell>>

\* Line 97: fs::remove_dir_all(&local_build_dir)?
RemoveLocalBuild(r) ==
  /\ pc[r] = "remove_local_build"
  /\ \E io \in BOOLEAN :
       FsCall(r, Io(io, remove_dir_all(fs, local_build_dir(settings[r]))), "create_local",
              WM, "remove local_build_dir")
  /\ UNCHANGED <<template, settings, rel, data, manifest, child, started, info, shell>>

\* Line 100: fs::create_dir_all(&local_dir)?
CreateLocal(r) ==
  /\ pc[r] = "create_local"
  /\ \E io \in BOOLEAN :
       FsCall(r, Io(io, create_dir_all(fs, local_dir(settings[r]))), "create_cargo_cache",
              WM, "create local_dir")
  /\ UNCHANGED <<template, settings, rel, data, manifest, child, started, info, shell>>

\* Line 101: fs::create_dir_all(&cargo_cache_dir)?
CreateCargoCache(r) ==
  /\ pc[r] = "create_cargo_cache"
  /\ \E io \in BOOLEAN :
       FsCall(r, Io(io, create_dir_all(fs, cargo_cache_dir(settings[r]))), "create_yarn_cache",
              WM, "create cargo_cache_dir")
  /\ UNCHANGED <<template, settings, rel, data, manifest, child, started, info, shell>>

\* Line 102: fs::create_dir_all(&yarn_cache_dir)?
CreateYarnCache(r) ==
  /\ pc[r] = "create_yarn_cache"
  /\ \E io \in BOOLEAN :
       FsCall(r, Io(io, create_dir_all(fs, yarn_cache_dir(settings[r]))), "create_target_cache",
              WM, "create yarn_cache_dir")
  /\ UNCHANGED <<template, settings, rel, data, manifest, child, started, info, shell>>

\* Line 103: fs::create_dir_all(&target_cache_dir)?
CreateTargetCache(r) ==
  /\ pc[r] = "create_target_cache"
  /\ \E io \in BOOLEAN :
       FsCall(r, Io(io, create_dir_all(fs, target_cache_dir(settings[r]))), "generate_desktop_file",
              WM, "create target_cache_dir")
  /\ UNCHANGED <<template, settings, rel, data, manifest, child, started, info, shell>>

\* Line 108: generate_desktop_file(&settings, &local_dir)?
GenerateDesktopFile(r) ==
  /\ pc[r] = "generate_desktop_file"
  /\ \E io \in BOOLEAN :
       FsCall(r, Io(io, generate_desktop_file(fs, settings[r])), "generate_icon_files",
              Assets, "generate_desktop_file")
  /\ UNCHANGED <<template, settings, rel, data, manifest, child, started, info, shell>>

\* Mutant: the result of generate_icon_files is dropped.
GenerateIconFiles_unchecked(r) ==
  /\ pc[r] = "generate_icon_files"
  /\ \E io \in BOOLEAN :
       LET res == Io(io, generate_icon_files(fs, settings[r]))
       IN /\ fs' = res.fs
          /\ pc' = [pc EXCEPT ![r] = "build_data"]
          /\ log' = [log EXCEPT ![r] = Append(@, Event(Assets, "generate_icon_files", res.tag = "Ok"))]
  /\ UNCHANGED <<template, settings, rel, data, manifest, result, child, started, outcomes,
                 info, shell>>

\* Line 109: generate_icon_files(&settings, &local_dir)?
GenerateIconFiles(r) ==
  /\ pc[r] = "generate_icon_files"
  /\ \E io \in BOOLEAN :
       FsCall(r, Io(io, generate_icon_files(fs, settings[r])), "build_data",
              Assets, "generate_icon_files")
  /\ UNCHANGED <<template, settings, rel, data, manifest, child, started, info, shell>>

\* Mutant: the record lists the shared-modules checkout when it finds one.
BuildData_reads_fs(r) ==
  /\ pc[r] = "build_data"
  /\ data' = [data EXCEPT ![r] =
                [ManifestMap(settings[r], rel[r]) EXCEPT
                   !.skip_list = IF exists(fs, shared_modules_dir(settings[r]))
                                   THEN Append(@, "shared-modules") ELSE @]]
  /\ Proceed(r, "render", MDB, "ManifestMap")
  /\ UNCHANGED <<fs, template, settings, rel, manifest, child, started, info, shell>>

\* Lines 111-154: the ManifestMap.
BuildData(r) ==
  /\ pc[r] = "build_data"
  /\ data' = [data EXCEPT ![r] = ManifestMap(settings[r], rel[r])]
  /\ Proceed(r, "render", MDB, "ManifestMap")
  /\ UNCHANGED <<fs, template, settings, rel, manifest, child, started, info, shell>>

\* Lines 157-162: handlebars.render("flatpak", &data)?
Render(r) ==
  /\ pc[r] = "render"
  /\ LET res == render(template[r], data[r])
     IN IF res.tag = "Ok"
          THEN /\ manifest' = [manifest EXCEPT ![r] = res.val]
               /\ Proceed(r, "write_manifest", MR, "render")
          ELSE /\ UNCHANGED manifest
               /\ ReturnErr(r, "RenderError", NoContext, MR, "render")
  /\ UNCHANGED <<fs, template, settings, rel, data, child, started, info, shell>>

\* Mutant: the manifest is rendered and never written.
WriteManifest_nowrite(r) ==
  /\ pc[r] = "write_manifest"
  /\ Proceed(r, "spawn_git", MR, "write manifest")
  /\ UNCHANGED <<fs, template, settings, rel, data, manifest, child, started, info, shell>>

\* Line 167: fs::write(&manifest_path, manifest)?
WriteManifest(r) ==
  /\ pc[r] = "write_manifest"
  /\ \E io \in BOOLEAN :
       FsCall(r, Io(io, write(fs, manifest_path(settings[r]))), "spawn_git",
              MR, "write manifest")
  /\ UNCHANGED <<template, settings, rel, data, manifest, child, started, info, shell>>

\* ------------------------------------------------------------------ external tools

\* What `git clone .../shared-modules.git` run in local_dir may do: exit 0
\* with the checkout in place, or exit non-zero leaving nothing or a partial
\* checkout.
git_clone(f, s) ==
  {[code |-> 0,
    fs |-> [dirs |-> f.dirs \cup {shared_modules_dir(s)},
            files |-> f.files \cup {shared_modules_head(s)}]] :
     x \in {1} \cap (IF local_dir(s) \in f.dirs /\ ~exists(f, shared_modules_dir(s))
                      THEN {1} ELSE {})}
  \cup {[code |-> 1, fs |-> f]}
  \cup {[code |-> 1, fs |-> [dirs |-> f.dirs \cup {shared_modules_dir(s)}, files |-> f.files]] :
     x \in {1} \cap (IF local_dir(s) \in f.dirs THEN {1} ELSE {})}

\* What `flatpak-builder --state-dir=.. --repo=.. local_build_dir manifest`
\* may do: exit 0 with the build directory, the state directory and the
\* repository in place (it needs the manifest and the sources it names, and
\* a build directory that does not exist yet), or exit non-zero leaving
\* nothing or a partial build.
flatpak_builder(f, s) ==
  {[code |-> 0,
    fs |-> [dirs |-> f.dirs \cup {local_build_dir(s), state_dir(s), flatpak_repository_dir(s)},
            files |-> f.files]] :
     x \in {1} \cap (IF /\ manifest_path(s) \in f.files
                         /\ shared_modules_head(s) \in f.files
                         /\ output_dir(s) \in f.dirs
                         /\ ~exists(f, local_build_dir(s))
                      THEN {1} ELSE {})}
  \cup {[code |-> 1, fs |-> f]}
  \cup {[code |-> 1, fs |-> [dirs |-> f.dirs \cup {local_build_dir(s), state_dir(s)}, files |-> f.files]] :
     x \in {1} \cap (IF output_dir(s) \in f.dirs THEN {1} ELSE {})}

\* What `flatpak build-bundle repo bundle_path app_id` may do: exit 0 with
\* the bundle written (it needs the repository), or exit non-zero.
flatpak_build_bundle(f, s) ==
  {[code |-> 0, fs |-> [dirs |-> f.dirs, files |-> f.files \cup {flatpak_bundle_path(s)}]] :
     x \in {1} \cap (IF flatpak_repository_dir(s) \in f.dirs /\ output_dir(s) \in f.dirs
                      THEN {1} ELSE {})}
  \cup {[code |-> 1, fs |-> f]}

\* output_ok, first half: the process is spawned, or spawning fails and the
\* error is returned with the stage's context.
Spawn(r, name, can, wait, comp, context) ==
  /\ \E io \in BOOLEAN :
       IF io /\ can
         THEN /\ child' = [child EXCEPT ![r] = name]
              /\ Proceed(r, wait, comp, "spawn " \o name)
         ELSE /\ UNCHANGED child
              /\ ReturnErr(r, "CommandError", context, comp, "spawn " \o name)
  /\ UNCHANGED <<fs, template, settings, rel, data, manifest, started, info, shell>>

\* output_ok, second half: the process exits with what it did to the
\* filesystem; a non-zero status is returned as an error with the stage's
\* context.
Wait(r, name, outs, next, comp, context) ==
  /\ child[r] = name
  /\ \E o \in outs :
       /\ fs' = o.fs
       /\ child' = [child EXCEPT ![r] = "none"]
       /\ IF output_ok(o.code) = "Ok"
            THEN Proceed(r, next, comp, "exit " \o name)
            ELSE ReturnErr(r, "CommandError", context, comp, "exit " \o name)
  /\ UNCHANGED <<template, settings, rel, data, manifest, started, info, shell>>

\* Mutant of a wait: the exit status is not looked at.
Wait_unchecked(r, name, outs, next, comp) ==
  /\ child[r] = name
  /\ \E o \in outs :
       /\ fs' = o.fs
       /\ child' = [child EXCEPT ![r] = "none"]
       /\ pc' = [pc EXCEPT ![r] = next]
       /\ log' = [log EXCEPT ![r] = Append(@, Event(comp, "exit " \o name, o.code = 0))]
  /\ UNCHANGED <<template, settings, rel, data, manifest, result, started, outcomes, info, shell>>

\* Mutant: git is spawned and not waited for.
SpawnGit_nowait(r) ==
  /\ pc[r] = "spawn_git"
  /\ Spawn(r, "git", local_dir(settings[r]) \in fs.dirs, "spawn_builder", DSF, CloneContext)

\* Mutant: the status of git clone is not checked.
WaitGit_unchecked(r) ==
  /\ pc[r] = "wait_git"
  /\ Wait_unchecked(r, "git", git_clone(fs, settings[r]), "spawn_builder", DSF)

\* Mutant: the status of flatpak-builder is not checked.
WaitBuilder_unchecked(r) ==
  /\ pc[r] = "wait_builder"
  /\ Wait_unchecked(r, "flatpak-builder", flatpak_builder(fs, settings[r]), "spawn_export", SB)

\* Mutant: the failure of flatpak-builder carries the context of the clone.
WaitBuilder_clone_context(r) ==
  /\ pc[r] = "wait_builder"
  /\ Wait(r, "flatpak-builder", flatpak_builder(fs, settings[r]), "spawn_export", SB, CloneContext)

\* Lines 179-184: Command::new("git").arg("clone")...output_ok().context(..)?
SpawnGit(r) ==
  /\ pc[r] = "spawn_git"
  /\ Spawn(r, "git", local_dir(settings[r]) \in fs.dirs, "wait_git", DSF, CloneContext)

WaitGit(r) ==
  /\ pc[r] = "wait_git"
  /\ Wait(r, "git", git_clone(fs, settings[r]), "spawn_builder", DSF, CloneContext)

\* Lines 190-201: Command::new("flatpak-builder")...output_ok().context(..)?
SpawnBuilder(r) ==
  /\ pc[r] = "spawn_builder"
  /\ Spawn(r, "flatpak-builder", TRUE, "wait_builder", SB, BuildContext)

WaitBuilder(r) ==
  /\ pc[r] = "wait_builder"
  /\ Wait(r, "flatpak-builder", flatpak_builder(fs, settings[r]), "spawn_export", SB, BuildContext)

\* Lines 207-213: Command::new("flatpak").arg("build-bundle")...output_ok().context(..)?
SpawnExport(r) ==
  /\ pc[r] = "spawn_export"
  /\ Spawn(r, "flatpak", TRUE, "wait_export", BE, ExportContext)

WaitExport(r) ==
  /\ pc[r] = "wait_export"
  /\ Wait(r, "flatpak", flatpak_build_bundle(fs, settings[r]), "return_ok", BE, ExportContext)

\* Line 215: Ok(vec![flatpak_bundle_path])
ReturnOk(r) ==
  /\ pc[r] = "return_ok"
  /\ pc' = [pc EXCEPT ![r] = "returned"]
  /\ result' = [result EXCEPT ![r] = Ok(<<flatpak_bundle_path(settings[r])>>)]
  /\ outcomes' = Append(outcomes, [tag |-> "Ok", id |-> settings[r].bundle_identifier])
  /\ UNCHANGED <<fs, template, settings, rel, data, manifest, log, child, started, info, shell>>

\* ------------------------------------------------------------------ specifications

Step(r) ==
  \/ StripPrefix(r)
  \/ ExistsLocal(r)
  \/ RemoveLocal(r)
  \/ ExistsLocalBuild(r)
  \/ RemoveLocalBuild(r)
  \/ CreateLocal(r)
  \/ CreateCargoCache(r)
  \/ CreateYarnCache(r)
  \/ CreateTargetCache(r)
  \/ GenerateDesktopFile(r)
  \/ GenerateIconFiles(r)
  \/ BuildData(r)
  \/ Render(r)
  \/ WriteManifest(r)
  \/ SpawnGit(r)
  \/ WaitGit(r)
  \/ SpawnBuilder(r)
  \/ WaitBuilder(r)
  \/ SpawnExport(r)
  \/ WaitExport(r)
  \/ ReturnOk(r)

\* Invocations one after the other, as the caller is required to make them.
Next == \E r \in Runs : BeginRun(r) \/ Step(r)

Spec == Init /\ [][Next]_vars

\* Two invocations for the same project at the same time.
NextConc == \E r \in Runs : BeginConcurrentRun(r) \/ Step(r)

\* What an earlier run for settings s leaves behind when its flatpak-builder
\* fails half-way: local_dir with the assets, the manifest and the checkout,
\* the caches, and a partial local_build_dir.
LeftoverFs(s) ==
  [dirs |-> Ancestors(ProjectOut, 1)
              \cup Ancestors(shared_modules_dir(s), 1)
              \cup (Ancestors(desktop_file_path(s), 1) \ {desktop_file_path(s)})
              \cup (Ancestors(icon_file_path(s), 1) \ {icon_file_path(s)})
              \cup Ancestors(cargo_cache_dir(s), 1)
              \cup {yarn_cache_dir(s), target_cache_dir(s), local_build_dir(s), state_dir(s)},
   files |-> {desktop_file_path(s), icon_file_path(s), manifest_path(s), shared_modules_head(s)}]

\* The two runs start on a fresh output directory, or on one an earlier
\* failed run has left behind.
InitConc ==
  /\ fs \in {CleanFs} \cup {LeftoverFs(s) : s \in ConcSettingsSet}
  /\ InitLocals
  /\ info = InfoIdle
  /\ shell = ShellIdle

SpecConc == InitConc /\ [][NextConc]_vars

\* The leftover of a failed run is a filesystem Spec reaches.
LeftoverReached ==
  \E r \in Runs : pc[r] = "returned" /\ result[r].tag = "Err" /\ fs = LeftoverFs(settings[r])

\* ------------------------------------------------------------------ reading the log

HasEvent(l, op, ok) == \E i \in DOMAIN l : l[i].op = op /\ l[i].ok = ok
Count(l, op) == Cardinality({i \in DOMAIN l : l[i].op = op})
Pos(l, op) == CHOOSE i \in DOMAIN l : l[i].op = op /\ l[i].ok
SpawnOps == {"spawn git", "spawn flatpak-builder", "spawn flatpak"}
NoSpawn(l) == \A i \in DOMAIN l : l[i].op \notin SpawnOps

\* The pipeline state of run r: the last stage that succeeded, or Failed
\* once a statement has failed.
State(r) ==
  IF \E i \in DOMAIN log[r] : ~log[r][i].ok THEN "Failed"
  ELSE IF HasEvent(log[r], "exit flatpak", TRUE) THEN "Exported"
  ELSE IF HasEvent(log[r], "exit flatpak-builder", TRUE) THEN "Built"
  ELSE IF HasEvent(log[r], "exit git", TRUE) THEN "SourcesFetched"
  ELSE IF HasEvent(log[r], "write manifest", TRUE) THEN "ManifestWritten"
  ELSE "Clean"

Forward ==
  {<<"Clean", "ManifestWritten">>, <<"ManifestWritten", "SourcesFetched">>,
   <<"SourcesFetched", "Built">>, <<"Built", "Exported">>}
ToFailed == {<<st, "Failed">> : st \in {"Clean", "ManifestWritten", "SourcesFetched", "Built"}}

\* The caller starts run slot r anew in this step.
Restarts(r) == pc[r] \in {"idle", "returned"} /\ pc'[r] = "strip_prefix"

\* Whether the project output directory lies under workdir.
UnderWorkdir(s) == IsPrefix(s.workdir, s.project_out_directory)

Active(r) == pc[r] # "idle"

\* ------------------------------------------------------------------ claims

C1_State(r) ==
  /\ \A op \in SpawnOps : Count(log[r], op) <= 1
  /\ State(r) = "Failed" => pc[r] = "returned" /\ result[r].tag = "Err"

C1_Run(r) ==
  /\ C1_State(r)
  /\ C1_State(r)'
  /\ ~Restarts(r) =>
       /\ State(r)' # State(r) => <<State(r), State(r)'>> \in Forward \cup ToFailed
       /\ State(r) = "Failed" => UNCHANGED <<fs, log, child, result>>

\* C1: in every run the pipeline state only moves forward, Clean ->
\* ManifestWritten -> SourcesFetched -> Built -> Exported, one state at a
\* time, so that each external process is spawned at most once; the first
\* failure moves the run to Failed, the run has then returned an error, and
\* nothing more is written or spawned.
C1_ForwardOnly == [][\A r \in Runs : C1_Run(r)]_vars

C1_Witness ==
  \E r \in Runs :
    /\ State(r) = "Failed"
    /\ HasEvent(log[r], "exit flatpak-builder", FALSE)
    /\ HasEvent(log[r], "exit git", TRUE)
    /\ result[r].tag = "Err"

\* C2: when git clone exits non-zero, bundle_project has returned an error
\* carrying the context of the source-fetching stage, and flatpak-builder
\* was not spawned in that run.
C2_CloneFailure ==
  \A r \in Runs :
    HasEvent(log[r], "exit git", FALSE) =>
      /\ pc[r] = "returned"
      /\ result[r] = Err("CommandError", CloneContext)
      /\ ~HasEvent(log[r], "spawn flatpak-builder", TRUE)
      /\ ~HasEvent(log[r], "spawn flatpak-builder", FALSE)
      /\ child[r] = "none"

C2_Witness ==
  \E r \in Runs :
    /\ HasEvent(log[r], "exit git", FALSE)
    /\ result[r].context = "failed to generate Cargo sources file for Flatpak manifest"

\* C3: when the project output directory is not under workdir, the run
\* fails with the path-relativization error and spawns none of git,
\* flatpak-builder and flatpak.
C3_NotUnderWorkdir ==
  \A r \in Runs :
    (Active(r) /\ ~UnderWorkdir(settings[r])) =>
      /\ pc[r] \in {"strip_prefix", "returned"}
      /\ pc[r] = "returned" => result[r] = Err("StripPrefixError", NoContext)
      /\ NoSpawn(log[r])
      /\ child[r] = "none"

C3_Witness ==
  \E r \in Runs :
    /\ pc[r] = "returned"
    /\ settings[r].workdir = <<"", "v">>
    /\ result[r].kind = "StripPrefixError"

\* C4: a run that follows a failed run finds neither local_dir nor
\* local_build_dir when it comes to create local_dir: whatever the failed
\* run left there has been removed.
C4_CleanRerun ==
  \A r \in Runs :
    (pc[r] = "create_local" /\ \E i \in DOMAIN outcomes : outcomes[i].tag = "Err") =>
      /\ ~exists(fs, local_dir(settings[r]))
      /\ ~exists(fs, local_build_dir(settings[r]))

C4_Witness ==
  \E r \in Runs :
    /\ pc[r] = "create_local"
    /\ outcomes # <<>> /\ outcomes[Len(outcomes)].tag = "Err"
    /\ HasEvent(log[r], "remove local_dir", TRUE)
    /\ HasEvent(log[r], "remove local_build_dir", TRUE)

\* C5: when rendering the manifest fails, the run returns the render error
\* and no file is at local_dir/{app_id}.json.
C5_RenderFailure ==
  \A r \in Runs :
    HasEvent(log[r], "render", FALSE) =>
      /\ pc[r] = "returned"
      /\ result[r] = Err("RenderError", NoContext)
      /\ ~exists(fs, manifest_path(settings[r]))

C5_Witness ==
  \E r \in Runs :
    /\ result[r].kind = "RenderError"
    /\ HasEvent(log[r], "remove local_dir", TRUE)
    /\ \E i \in DOMAIN outcomes :
         /\ i < Len(outcomes)
         /\ outcomes[i] = [tag |-> "Ok", id |-> settings[r].bundle_identifier]

\* C6: bundle_project returns Ok only after the manifest was written and
\* git clone, flatpak-builder and flatpak build-bundle succeeded in that
\* order, and then returns exactly [project_out/bundle/flatpak/{app_id}.flatpak];
\* a failed run returns no path.
C6_OkResult ==
  \A r \in Runs :
    /\ result[r].tag = "Ok" =>
         /\ State(r) = "Exported"
         /\ Pos(log[r], "write manifest") < Pos(log[r], "exit git")
         /\ Pos(log[r], "exit git") < Pos(log[r], "exit flatpak-builder")
         /\ Pos(log[r], "exit flatpak-builder") < Pos(log[r], "exit flatpak")
         /\ result[r].paths =
              << settings[r].project_out_directory
                   \o <<"bundle", "flatpak", settings[r].bundle_identifier \o ".flatpak">> >>
    /\ pc[r] = "returned" => result[r].tag \in {"Ok", "Err"}
    /\ result[r].tag = "Ok" <=> (pc[r] = "returned" /\ State(r) = "Exported")
    /\ result[r].tag # "Ok" => result[r].paths = <<>>

C6_Witness ==
  \E r \in Runs :
    /\ result[r].tag = "Ok"
    /\ Len(result[r].paths) = 1
    /\ to_string_lossy(result[r].paths[1])
         = "/w/target/release/bundle/flatpak/app.tauri.example.flatpak"

\* C7: the record's deb_package_name is main_binary, version and the
\* architecture code joined by "_", the code being i386 for x86, amd64 for
\* x86_64 and the architecture itself otherwise.
C7_DebPackageName ==
  \A r \in Runs :
    data[r] # NoData =>
      data[r].deb_package_name =
        settings[r].main_binary_name \o "_" \o settings[r].version_string \o "_"
          \o (IF settings[r].binary_arch = "x86" THEN "i386"
              ELSE IF settings[r].binary_arch = "x86_64" THEN "amd64"
              ELSE settings[r].binary_arch)

C7_Witness ==
  \E r \in Runs :
    /\ data[r] # NoData
    /\ settings[r].binary_arch = "x86_64"
    /\ data[r].deb_package_name = "example_1.0.0_amd64"

\* The last event of run r's log: for a failed run, the statement that failed.
Last(l) == l[Len(l)]

\* C8 as stated: the error of every failing stage carries a context that
\* names the stage.
C8_EveryStageContext ==
  \A r \in Runs : result[r].tag = "Err" => result[r].context # NoContext

\* C8, amended: only the failures of the three external tools carry a
\* context, one per stage (clone, build, export); a failure of the
\* relativization, of the workspace clean-up and creation, of the asset
\* generation, of the rendering or of the manifest write is returned as the
\* underlying error, without context.
C8_ToolStagesContext ==
  /\ Cardinality({CloneContext, BuildContext, ExportContext, NoContext}) = 4
  /\ \A r \in Runs :
       result[r].tag = "Err" =>
         /\ ~Last(log[r]).ok
         /\ result[r].context =
              (CASE Last(log[r]).comp = DSF -> CloneContext
                 [] Last(log[r]).comp = SB -> BuildContext
                 [] Last(log[r]).comp = BE -> ExportContext
                 [] OTHER -> NoContext)
         /\ result[r].kind = "CommandError" <=> Last(log[r]).comp \in {DSF, SB, BE}

C8_Witness ==
  \E r \in Runs :
    /\ result[r].tag = "Err"
    /\ Last(log[r]).comp = SB
    /\ result[r].context = "failed to build Flatpak"

Rank(comp) ==
  CASE comp = WM -> 1
    [] comp = MDB -> 2
    [] comp = MR -> 3
    [] comp = DSF -> 4
    [] comp = SB -> 5
    [] comp = BE -> 6

WaitPc(name) ==
  CASE name = "git" -> "wait_git"
    [] name = "flatpak-builder" -> "wait_builder"
    [] name = "flatpak" -> "wait_export"

\* An external process of run r is alive only while the run waits for it.
Synchronous(r) == child[r] # "none" => pc[r] = WaitPc(child[r])

\* C9 as stated: the six components work strictly in the order Workspace
\* Manager, Manifest Data Builder, Manifest Renderer, Dependency Source
\* Fetcher, Sandbox Builder, Bundle Exporter, the relativization included,
\* and a process has exited before the next stage starts.
C9_StrictOrder ==
  \A r \in Runs :
    /\ \A i, j \in {k \in DOMAIN log[r] : log[r][k].comp # Assets} :
         i < j => Rank(log[r][i].comp) <= Rank(log[r][j].comp)
    /\ Synchronous(r)

\* C9, amended: the relativization of the project output directory against
\* workdir is the first thing a run does, before the Workspace Manager;
\* after it come, in this order and each finished before the next begins,
\* the Workspace Manager, the asset generation, the construction of the
\* manifest record, the Manifest Renderer, the Dependency Source Fetcher,
\* the Sandbox Builder and the Bundle Exporter; and a process has exited
\* before the next stage starts.
C9_OrderAfterRelativization ==
  \A r \in Runs :
    /\ \A i \in DOMAIN log[r] : log[r][i].op = "strip_prefix" <=> i = 1
    /\ \A i, j \in DOMAIN log[r] \ {1} :
         i < j =>
           /\ log[r][i].comp # Assets /\ log[r][j].comp # Assets
                => Rank(log[r][i].comp) <= Rank(log[r][j].comp)
           /\ log[r][i].comp = Assets => log[r][j].comp \notin {WM}
           /\ log[r][j].comp = Assets => log[r][i].comp \in {WM, Assets}
    /\ Synchronous(r)

C9_Witness ==
  \E r \in Runs :
    /\ result[r].tag = "Ok"
    /\ {log[r][i].comp : i \in DOMAIN log[r]} = {WM, MDB, MR, DSF, SB, BE, Assets}
    /\ log[r][1].comp = MDB /\ log[r][2].comp = WM

\* C10: with two runs at once on one output directory, a run can stand
\* before its sandbox build with the manifest it wrote gone, and a run's
\* remove or write can fail on a path that has vanished; either happens
\* only when the other run has removed local_dir or local_build_dir.
C10_RaceOnly ==
  \A r \in Runs :
    /\ ( /\ pc[r] \in {"spawn_git", "wait_git", "spawn_builder", "wait_builder"}
         /\ HasEvent(log[r], "write manifest", TRUE)
         /\ ~exists(fs, manifest_path(settings[r])) )
         => \E q \in Runs \ {r} : HasEvent(log[q], "remove local_dir", TRUE)
    /\ ( /\ pc[r] \in {"spawn_builder", "wait_builder"}
         /\ ~exists(fs, shared_modules_head(settings[r])) )
         => \E q \in Runs \ {r} : HasEvent(log[q], "remove local_dir", TRUE)
    /\ result[r].kind = "NotFound"
         => \E q \in Runs \ {r} :
              \/ HasEvent(log[q], "remove local_dir", TRUE)
              \/ HasEvent(log[q], "remove local_build_dir", TRUE)

C10_Witness ==
  \E r \in Runs : \E q \in Runs \ {r} :
    /\ pc[r] = "spawn_builder"
    /\ HasEvent(log[r], "write manifest", TRUE)
    /\ HasEvent(log[r], "exit git", TRUE)
    /\ ~exists(fs, manifest_path(settings[r]))
    /\ ~exists(fs, shared_modules_head(settings[r]))
    /\ HasEvent(log[q], "remove local_dir", TRUE)

\* The other interleaving of C10: a run saw local_dir, the other run removed
\* it, and the run's own remove_dir_all failed on the missing directory.
C10_WitnessRemoveFails ==
  \E r \in Runs : \E q \in Runs \ {r} :
    /\ result[r].kind = "NotFound"
    /\ Last(log[r]).op = "remove local_dir"
    /\ HasEvent(log[q], "remove local_dir", TRUE)

\* ------------------------------------------------------------------ FlatpakInfo::try_load

PipelineVars ==
  <<fs, template, pc, settings, rel, data, manifest, result, log, child, started, outcomes>>

\* The application calls FlatpakInfo::try_load(); `file` is what is at
\* /.flatpak-info.
TryLoadCall ==
  /\ info.pc \in {"idle", "returned", "triple"}
  /\ \E file \in InfoFiles : info' = [InfoIdle EXCEPT !.pc = "exists", !.file = file]
  /\ UNCHANGED <<PipelineVars, shell>>

\* Lines 60-63: if !path.exists() { return Ok(None) }
TryLoadExists ==
  /\ info.pc = "exists"
  /\ info' = IF ~info_exists(info.file)
               THEN [info EXCEPT !.pc = "returned", !.result = [tag |-> "None", val |-> NoFlatpakInfo]]
               ELSE [info EXCEPT !.pc = "load"]
  /\ UNCHANGED <<PipelineVars, shell>>

\* Line 65: Ok(Some(Self::try_load_from_file(&path)?))
TryLoadFromFile ==
  /\ info.pc = "load"
  /\ LET loaded == try_load_from_file(info.file)
     IN info' = [info EXCEPT !.pc = "returned",
                              !.result = IF loaded.tag = "Ok"
                                           THEN [tag |-> "Some", val |-> loaded.val]
                                           ELSE [tag |-> "Err", val |-> NoFlatpakInfo]]
  /\ UNCHANGED <<PipelineVars, shell>>

\* Lines 48-53: info.get_identifier_triple() on the loaded value.
GetIdentifierTriple ==
  /\ info.pc = "returned"
  /\ info.result.tag = "Some"
  /\ info' = [info EXCEPT !.pc = "triple", !.triple = get_identifier_triple(info.result.val)]
  /\ UNCHANGED <<PipelineVars, shell>>

NextInfo == TryLoadCall \/ TryLoadExists \/ TryLoadFromFile \/ GetIdentifierTriple

SpecInfo == Init /\ [][NextInfo]_vars

\* C11: try_load returns Ok(None) exactly when nothing is at
\* /.flatpak-info; when something is there it returns Ok(Some(info)) exactly
\* when it is a key file holding all four keys, each field of info being the
\* value of its key and the identifier triple name/arch/branch; and it
\* returns Err otherwise.
C11_TryLoad ==
  info.pc \in {"returned", "triple"} =>
    /\ info.result.tag \in {"None", "Some", "Err"}
    /\ info.result.tag = "None" <=> info.file.kind = "absent"
    /\ (info.file.kind = "keyfile" /\ DOMAIN info.file.keys = InfoKeys) =>
         /\ info.result.tag = "Some"
         /\ info.result.val.application_name = info.file.keys[<<"Application", "name">>]
         /\ info.result.val.application_runtime = info.file.keys[<<"Application", "runtime">>]
         /\ info.result.val.instance_arch = info.file.keys[<<"Instance", "arch">>]
         /\ info.result.val.instance_branch = info.file.keys[<<"Instance", "branch">>]
         /\ info.pc = "triple" =>
              info.triple = info.file.keys[<<"Application", "name">>] \o "/"
                              \o info.file.keys[<<"Instance", "arch">>] \o "/"
                              \o info.file.keys[<<"Instance", "branch">>]
    /\ (info.file.kind # "absent"
          /\ ~(info.file.kind = "keyfile" /\ DOMAIN info.file.keys = InfoKeys))
         => info.result.tag = "Err"

C11_Witness ==
  /\ info.pc = "triple"
  /\ info.result.tag = "Some"
  /\ info.result.val.application_runtime = "runtime/org.gnome.Platform/x86_64/42"
  /\ info.triple = "app.tauri.tauri-util-tests/x86_64/dev"

\* ------------------------------------------------------------------ shell open

\* OpenWith::from_str(s)
FromStrCall ==
  /\ \E s \in ShellInputs :
       shell' = [ShellIdle EXCEPT !.pc = "parsed", !.input = s, !.parsed = from_str(s)]
  /\ UNCHANGED <<PipelineVars, info>>

\* p.name(), in a build for target_os.
NameCall ==
  /\ \E p \in Programs, os \in TargetOs :
       shell' = [ShellIdle EXCEPT !.pc = "named", !.program = p, !.target_os = os,
                                  !.name = Program_name(p, os)]
  /\ UNCHANGED <<PipelineVars, info>>

\* OpenWith::from_str(p.name())
FromStrOfName ==
  /\ shell.pc = "named"
  /\ shell' = [shell EXCEPT !.pc = "reparsed", !.input = shell.name, !.parsed = from_str(shell.name)]
  /\ UNCHANGED <<PipelineVars, info>>

\* open(scope, uri, Some(Protocol::XdgDesktopPortal(options))): the call
\* reaches portal_open_uri(uri, options), which sends the method call.
PortalOpenUri ==
  /\ \E uri \in Uris, options \in PortalOptions :
       shell' = [ShellIdle EXCEPT !.pc = "sent", !.options = options,
                                  !.msg = portal_open_uri(uri, options)]
  /\ UNCHANGED <<PipelineVars, info>>

NextShell == FromStrCall \/ NameCall \/ FromStrOfName \/ PortalOpenUri

SpecShell == Init /\ [][NextShell]_vars

\* C12: the OpenURI request of a call with Some(Ask) specifies the "ask"
\* option, and the request of a call with None does not.
C12_AskOption ==
  shell.pc = "sent" =>
    (shell.options = "Ask" <=> \E kv \in shell.msg.options : kv[1] = "ask")

\* ------------------------------------------------------------------ claims C13-C20

\* Everything that exists on the filesystem.
Paths(f) == f.dirs \cup f.files

\* What exists at or below p.
Below(f, p) == {q \in Paths(f) : Under(p, q)}

\* What the asset generation of a run for settings s puts below local_dir.
AssetPaths(s) ==
  (Ancestors(desktop_file_path(s), 1) \cup Ancestors(icon_file_path(s), 1))
    \ Ancestors(output_dir(s), 1)

\* C13: when a run comes to generate the assets, local_dir is an empty
\* directory and local_build_dir does not exist, whatever earlier runs left
\* there; up to the rendering of the manifest local_dir holds the assets of
\* this run only, and neither a manifest nor a shared-modules checkout.
C13_CleanSlate ==
  \A r \in Runs :
    /\ pc[r] = "generate_desktop_file" =>
         /\ Below(fs, local_dir(settings[r])) = {local_dir(settings[r])}
         /\ ~exists(fs, local_build_dir(settings[r]))
    /\ pc[r] \in {"generate_icon_files", "build_data", "render", "write_manifest"} =>
         /\ Below(fs, local_dir(settings[r])) \subseteq AssetPaths(settings[r])
         /\ \A s \in SettingsSet : ~exists(fs, manifest_path(s))
         /\ ~exists(fs, shared_modules_dir(settings[r]))
         /\ ~exists(fs, local_build_dir(settings[r]))

C13_Witness ==
  \E r \in Runs :
    /\ pc[r] = "render"
    /\ outcomes # <<>>
    /\ HasEvent(log[r], "remove local_dir", TRUE)
    /\ HasEvent(log[r], "remove local_build_dir", TRUE)
    /\ desktop_file_path(settings[r]) \in fs.files

\* The position of the first event of operation op in the log l.
First(l, op) == CHOOSE i \in DOMAIN l : l[i].op = op /\ \A j \in 1..(i - 1) : l[j].op # op

\* C14: the manifest is rendered or written only after generate_desktop_file
\* and generate_icon_files have both succeeded; when either fails the run
\* returns an error, no manifest is rendered or written, no manifest file is
\* on disk and no external process is spawned.
C14_AssetsBeforeManifest ==
  \A r \in Runs :
    /\ (pc[r] \in {"render", "write_manifest"} \/ Count(log[r], "render") > 0
        \/ Count(log[r], "write manifest") > 0) =>
         /\ HasEvent(log[r], "generate_desktop_file", TRUE)
         /\ HasEvent(log[r], "generate_icon_files", TRUE)
         /\ \A op \in {"render", "write manifest"} :
              Count(log[r], op) > 0 =>
                /\ Pos(log[r], "generate_desktop_file") < First(log[r], op)
                /\ Pos(log[r], "generate_icon_files") < First(log[r], op)
    /\ (HasEvent(log[r], "generate_desktop_file", FALSE)
        \/ HasEvent(log[r], "generate_icon_files", FALSE)) =>
         /\ pc[r] = "returned"
         /\ result[r].tag = "Err"
         /\ Count(log[r], "render") = 0
         /\ Count(log[r], "write manifest") = 0
         /\ ~exists(fs, manifest_path(settings[r]))
         /\ NoSpawn(log[r])
         /\ child[r] = "none"

C14_Witness ==
  \E r \in Runs :
    /\ HasEvent(log[r], "generate_desktop_file", TRUE)
    /\ HasEvent(log[r], "generate_icon_files", FALSE)
    /\ pc[r] = "returned"
    /\ \E i \in DOMAIN outcomes : i < Len(outcomes) /\ outcomes[i].tag = "Ok"

\* The paths of the layout the pipeline creates, deletes, writes or hands
\* to a tool as a destination.
LayoutPaths(s) ==
  {local_dir(s), local_build_dir(s), flatpak_repository_dir(s), cache_dir(s),
   cargo_cache_dir(s), yarn_cache_dir(s), target_cache_dir(s), state_dir(s),
   manifest_path(s), flatpak_bundle_path(s)}

StrictlyUnder(p, q) == Under(p, q) /\ q # p

\* C15: every path of the layout lies below output_dir, which is
\* {project_out}/bundle/flatpak and lies below the project output
\* directory; whatever the runs have put on the filesystem is output_dir,
\* its parent, or below output_dir.
C15_UnderOutputDir ==
  \A r \in Runs :
    Active(r) =>
      /\ output_dir(settings[r]) = settings[r].project_out_directory \o <<"bundle", "flatpak">>
      /\ StrictlyUnder(settings[r].project_out_directory, output_dir(settings[r]))
      /\ \A p \in LayoutPaths(settings[r]) : StrictlyUnder(output_dir(settings[r]), p)
      /\ \A p \in Paths(fs) \ Paths(CleanFs) :
           \/ StrictlyUnder(output_dir(settings[r]), p)
           \/ p \in Ancestors(output_dir(settings[r]), Len(settings[r].project_out_directory) + 1)

C15_Witness ==
  \E r \in Runs :
    /\ pc[r] = "returned"
    /\ result[r].tag = "Ok"
    /\ LayoutPaths(settings[r]) \subseteq Paths(fs)

\* C16: the manifest record depends on the build settings alone: two runs
\* with equal settings build equal records whatever they find on the
\* filesystem, and building the record leaves the filesystem as it is.
C16_Equal ==
  \A r, q \in Runs :
    (data[r] # NoData /\ data[q] # NoData /\ settings[r] = settings[q]) => data[r] = data[q]

NameTable ==
  {<<S_open, OpenWithProgram("Open")>>, <<S_start, OpenWithProgram("Start")>>,
   <<S_xdg_open, OpenWithProgram("XdgOpen")>>, <<S_gio, OpenWithProgram("Gio")>>,
   <<S_gnome_open, OpenWithProgram("GnomeOpen")>>, <<S_kde_open, OpenWithProgram("KdeOpen")>>,
   <<S_wslview, OpenWithProgram("WslView")>>, <<S_firefox, OpenWithProgram("Firefox")>>,
   <<S_chrome, OpenWithProgram("Chrome")>>, <<S_google_chrome, OpenWithProgram("Chrome")>>,
   <<S_chromium, OpenWithProgram("Chromium")>>, <<S_safari, OpenWithProgram("Safari")>>,
   <<S_xdg_desktop_portal, OpenWithProtocol("XdgDesktopPortal", "None")>>}

\* C17: from_str resolves the lowercase form of its input through the
\* table: a name of the table gives the Program of that name, or
\* Protocol::XdgDesktopPortal(None) for xdg-desktop-portal; any other
\* string gives Err(UnknownProgramName) with the input as it was given; two
\* inputs with the same lowercase form resolve alike.
C17_FromStr ==
  shell.pc = "parsed" =>
    /\ \A e \in NameTable :
         to_lowercase(shell.input) = e[1] => shell.parsed = ParseOk(e[2])
    /\ (\A e \in NameTable : to_lowercase(shell.input) # e[1]) =>
         shell.parsed = UnknownProgramName(Str(shell.input))
    /\ \A t \in ShellInputs :
         to_lowercase(t) = to_lowercase(shell.input) =>
           /\ from_str(t).tag = shell.parsed.tag
           /\ from_str(t).with = shell.parsed.with

C17_Witness ==
  /\ shell.pc = "parsed"
  /\ shell.input # to_lowercase(shell.input)
  /\ to_lowercase(shell.input) = S_xdg_open
  /\ shell.parsed = ParseOk(OpenWithProgram("XdgOpen"))

C17_WitnessUnknown ==
  /\ shell.pc = "parsed"
  /\ shell.input = <<"G", "o", "o", "g", "l", "e", "-", "C", "h", "r", "o", "m", "e">>
  /\ shell.parsed = UnknownProgramName("Google-Chrome")

\* Every path of f that is gone in g.
Deleted(f, g) == Paths(f) \ Paths(g)

\* The bundle file of the application app_id.
BundleOf(app_id) == {flatpak_bundle_path(s) : s \in {x \in SettingsSet : x.bundle_identifier = app_id}}

\* C18: a step of the pipeline deletes nothing but local_dir,
\* local_build_dir and what is below them, and only in the clean-up of a
\* run; the caches, the repository, the builder state directory and the
\* bundles stay, so the bundle of every run that succeeded is on disk after
\* every later run.
C18_Kept ==
  \A i \in DOMAIN outcomes : outcomes[i].tag = "Ok" => BundleOf(outcomes[i].id) \subseteq fs.files

C18_DeletesOnlyLocal ==
  [][/\ C18_Kept'
     /\ \A p \in Deleted(fs, fs') :
          \E r \in Runs :
            \/ pc[r] = "remove_local" /\ Under(local_dir(settings[r]), p)
            \/ pc[r] = "remove_local_build" /\ Under(local_build_dir(settings[r]), p)]_vars

C18_Witness ==
  /\ Len(outcomes) = 2
  /\ outcomes[1].tag = "Ok" /\ outcomes[2].tag = "Err"
  /\ BundleOf(outcomes[1].id) \subseteq fs.files
  /\ \E r \in Runs :
       /\ HasEvent(log[r], "remove local_dir", TRUE)
       /\ HasEvent(log[r], "remove local_build_dir", TRUE)
       /\ {cargo_cache_dir(settings[r]), yarn_cache_dir(settings[r]), target_cache_dir(settings[r]),
           flatpak_repository_dir(settings[r]), state_dir(settings[r])} \subseteq fs.dirs

\* C19: a run whose project output directory is not under workdir returns
\* the relativization error from its first statement and leaves the
\* filesystem as it found it: what an earlier run left in local_dir and
\* local_build_dir stays, and nothing is created.
C19_NoMutation ==
  [][\A r \in Runs :
       (pc[r] = "strip_prefix" /\ ~UnderWorkdir(settings[r]) /\ pc'[r] # "strip_prefix") =>
         /\ fs' = fs
         /\ pc'[r] = "returned"
         /\ result'[r] = Err("StripPrefixError", NoContext)
         /\ log'[r] = <<Event(MDB, "strip_prefix", FALSE)>>
         /\ child' = child]_vars

C19_Witness ==
  \E r \in Runs :
    /\ pc[r] = "returned"
    /\ result[r].kind = "StripPrefixError"
    /\ ~UnderWorkdir(settings[r])
    /\ manifest_path(settings[r]) \in fs.files
    /\ local_build_dir(settings[r]) \in fs.dirs

\* C20 as stated: on every target, from_str(p.name()) is Ok(Program(p))
\* for every Program p.
C20_RoundTrip ==
  shell.pc = "reparsed" => shell.parsed = ParseOk(OpenWithProgram(shell.program))

\* C20: from_str(p.name()) is Ok(Program(p)) for every Program p on macOS,
\* and for every Program but Chrome on the other targets, where Chrome's
\* name google-chrome is no name of the table and from_str returns
\* Err(UnknownProgramName("google-chrome")).
C20_RoundTripButChrome ==
  shell.pc = "reparsed" =>
    IF shell.program = "Chrome" /\ shell.target_os # "macos"
      THEN /\ shell.name = S_google_dash_chrome
           /\ shell.parsed = UnknownProgramName("google-chrome")
      ELSE shell.parsed = ParseOk(OpenWithProgram(shell.program))

C20_Witness ==
  /\ shell.pc = "reparsed"
  /\ shell.program = "Chrome"
  /\ shell.target_os = "macos"
  /\ shell.name = S_Google_Chrome
  /\ shell.parsed = ParseOk(OpenWithProgram("Chrome"))

C20_WitnessLinux ==
  /\ shell.pc = "reparsed"
  /\ shell.program = "Chrome"
  /\ shell.target_os = "linux"
  /\ shell.parsed.tag = "Err"

====
